---- MODULE Spec2Model ----
(***************************************************************************)
(* State-machine model of osgEarth's SimpleSkyNode                         *)
(* (src/osgEarthDrivers/sky_simple/SimpleSkyNode.cpp): the default         *)
(* per-view data, the per-view registry (_perViewData), the clock          *)
(* propagation (onSetDateTime), attach, the sun/moon position setters, the *)
(* visibility handlers and the cull traversal; and, stepped one loop turn  *)
(* at a time in specifications of their own, the geometry builders         *)
(* (s_makeEllipsoidGeometry, s_makeDiscGeometry) and the star catalog      *)
(* loading (makeStars, parseStarFile, getDefaultStars).                    *)
(*                                                                         *)
(* Numbers.  Direction vectors are fixed-point triples in units of         *)
(* 1/FixedPoint; ECEF positions are integer triples; angles are integers   *)
(* in units of pi/24, so that Pi = 24 and TWO_PI = 48; DateTime::hours()    *)
(* is carried in half hours (a DateTime is [day, hh], hh in 0..47).        *)
(* Light ambient terms and eye.sun products are in thousandths, star       *)
(* magnitudes in hundredths, radii and scattering uniforms exact fractions.*)
(***************************************************************************)
EXTENDS Integers, Sequences, FiniteSets, TLC

\* ------------------------------------------------------------------ bounds
MaxAttach == 3          \* attach() calls modelled in one run
FixedPoint == 5         \* denominator of a direction-vector component
MaxLines == 3           \* lines of a star catalog file

\* ------------------------------------------------------- program constants
Pi == 24                \* osg::PI, in units of pi/24
TWO_PI == 48            \* #define TWO_PI, in units of pi/24
HoursPerDay == 24       \* dt.hours()/24.0
SunDistanceFactor == 12000   \* _sunDistance = _innerRadius * 12000.0f
NullView == 0           \* the null osg::View*
latSegments == 100      \* int latSegments = 100
segments == 48          \* int segments = 48

\* ------------------------------------------------------------ input sets
Views == {1, 2}         \* non-null osg::View* keys, ordered as std::map orders them
LightNums == {1}
LightChannels == {1, 2}   \* light numbers handed to attach when they matter
InnerRadii == {3}       \* polar radius of the ellipsoid handed to initialize()
InitialDate == [day |-> 1, hh |-> 35]   \* the date the node is constructed with
Dates == { InitialDate, [day |-> 2, hh |-> 24], [day |-> 2, hh |-> 0] }
InitialEphemeris == "default"   \* the ephemeris the node is constructed with
Ephemerides == {InitialEphemeris, "custom"}
SunInputs == { <<4, 0, 3>> }      \* positions handed to setSunPosition
MoonInputs == { <<0, 7, 0>> }     \* positions handed to setMoonPosition
EyeInputs == { <<0, 9, 0>>, <<6, 0, -8>> }   \* cv->getViewPoint()

\* DateTime::hours() of h hours, in the half hours a date carries
HalfHours(h) == 2 * h

\* ---------------------------------------------------------------- vectors
Dot(a, b) == a[1] * b[1] + a[2] * b[2] + a[3] * b[3]

RECURSIVE SqrtFrom(_, _)
SqrtFrom(n, r) == IF (r + 1) * (r + 1) > n THEN r ELSE SqrtFrom(n, r + 1)

\* osg::Vec3::length()
Length(v) == SqrtFrom(Dot(v, v), 0)

\* osg::Vec3::normalize() and v / v.length(): the result is a direction in
\* units of 1/FixedPoint
Normalize(v) ==
    LET len == Length(v)
    IN  IF len > 0
        THEN << (v[1] * FixedPoint) \div len,
                (v[2] * FixedPoint) \div len,
                (v[3] * FixedPoint) \div len >>
        ELSE v

Scaled(k, v) == << k * v[1], k * v[2], k * v[3] >>

\* --------------------------------------------------------------- matrices
Identity == [kind |-> "identity"]

\* osg::Matrix::translate(v)
Translate(v) ==
    IF v = <<0, 0, 0>> THEN Identity ELSE [kind |-> "translate", v |-> v]

\* osg::Matrixd::rotate(angle, 0, 0, 1): angles that differ by TWO_PI give
\* the same matrix
Rotate(angle) ==
    IF angle % TWO_PI = 0 THEN Identity
    ELSE [kind |-> "rotate", angle |-> angle % TWO_PI]

\* ------------------------------------------------------------- ephemeris
SunTable == << <<3, 4, 0>>, <<0, 8, 6>>, <<0, 0, -10>>, <<8, 0, 6>>,
               <<0, -7, 0>>, <<6, 8, 0>> >>
MoonTable == << <<1, 2, 3>>, <<0, 4, 1>>, <<5, 0, 2>>, <<2, 2, 0>>,
                <<0, 1, 6>>, <<3, 0, 0>> >>

EphemerisIndex(e, dt) ==
    ((dt.hh + 3 * dt.day + (IF e = InitialEphemeris THEN 0 ELSE 2)) % 6) + 1

\* Ephemeris::getSunPositionECEF / getMoonPositionECEF
getSunPositionECEF(e, dt) == SunTable[EphemerisIndex(e, dt)]
getMoonPositionECEF(e, dt) == MoonTable[EphemerisIndex(e, dt)]

\* ---------------------------------------------------------------- objects
\* An invalid ref_ptr
Null == [valid |-> FALSE]

\* Identity of an object made by the gen-th attach (0: by initialize)
ObjId(gen, kind) == <<gen, kind>>

\* The identity a null pointer carries
NullId == ObjId(0, "null")

\* visible ? ~0 : 0
Mask(visible) == IF visible THEN "~0" ELSE "0"

NewXform(gen, kind, matrix, child, visible) ==
    [valid |-> TRUE, id |-> ObjId(gen, kind), matrix |-> matrix,
     child |-> child, mask |-> Mask(visible)]

\* No cull traversal is in progress
NoCull == [active |-> FALSE]

\* The null ClampProjectionMatrixCallback
NoCallback == "null"

\* The callbacks a cull visitor may carry
Callbacks == { NoCallback, "clamper" }

VARIABLES
    innerRadius,          \* _innerRadius
    ephemeris,            \* the ephemeris getEphemeris() returns
    dateTime,             \* the date getDateTime() returns
    sunVisible,           \* getSunVisible()
    moonVisible,          \* getMoonVisible()
    starsVisible,         \* getStarsVisible()
    autoAmbience,         \* _autoAmbience
    moonPosition,         \* _moonPosition
    defaultPerViewData,   \* _defaultPerViewData
    perViewData,          \* _perViewData: view -> PerViewData
    viewState,            \* per osg::View: lighting mode and installed light
    attachCount,          \* generations of objects allocated by attach
    cull,                 \* the cull traversal in progress, if any
    outerRadius,          \* _outerRadius
    uniforms,             \* the uniforms makeSceneLighting sets on the node's stateset
    work,                 \* the geometry or star-catalog builder being stepped, if any
    visitor               \* the cull visitor handed to traverse()

vars == << innerRadius, ephemeris, dateTime, sunVisible, moonVisible,
           starsVisible, autoAmbience, moonPosition, defaultPerViewData,
           perViewData, viewState, attachCount, cull, outerRadius, uniforms,
           work, visitor >>

\* _sunDistance
sunDistance == innerRadius * SunDistanceFactor

\* ------------------------------------------------- per-view data helpers
\* setSunPositionData without the update of the light-direction uniform
setSunPositionData_NoUniform(data, pos, sd) ==
    LET d1 == [data EXCEPT !.lightPos = pos]
        d2 == IF d1.light.valid
              THEN [d1 EXCEPT !.light.position = <<pos[1], pos[2], pos[3], 0>>]
              ELSE d1
    IN  IF d2.sunXform.valid
        THEN [d2 EXCEPT !.sunXform.matrix = Translate(Scaled(sd, pos))]
        ELSE d2

\* setSunPosition( PerViewData& data, const osg::Vec3& pos )
setSunPositionData(data, pos, sd) ==
    LET d1 == [data EXCEPT !.lightPos = pos]
        d2 == IF d1.light.valid
              THEN [d1 EXCEPT !.light.position = <<pos[1], pos[2], pos[3], 0>>]
              ELSE d1
        d3 == IF d2.lightPosUniform.valid
              THEN [d2 EXCEPT !.lightPosUniform.value = Normalize(pos)]
              ELSE d2
    IN  IF d3.sunXform.valid
        THEN [d3 EXCEPT !.sunXform.matrix = Translate(Scaled(sd, pos))]
        ELSE d3

\* setMoonPosition( PerViewData& data, const osg::Vec3d& pos )
setMoonPositionData(data, pos) ==
    IF data.moonXform.valid
    THEN [data EXCEPT !.moonMatrix = Translate(pos),
                      !.moonXform.matrix = Translate(pos)]
    ELSE data

\* Variant: a view that is not registered gets an entry, as an unguarded
\* _perViewData[view] would make one
setSunPositionIn_Creates(def, pvd, pos, view, sd) ==
    IF view = NullView
    THEN [def |-> setSunPositionData(def, pos, sd),
          pvd |-> [v \in DOMAIN pvd |-> setSunPositionData(pvd[v], pos, sd)]]
    ELSE IF view \in DOMAIN pvd
    THEN [def |-> def,
          pvd |-> [pvd EXCEPT ![view] = setSunPositionData(pvd[view], pos, sd)]]
    ELSE [def |-> def, pvd |-> (view :> Null) @@ pvd]

\* setSunPosition( pos, view ), as a function of the two stores
setSunPositionIn(def, pvd, pos, view, sd) ==
    IF view = NullView
    THEN [def |-> setSunPositionData(def, pos, sd),
          pvd |-> [v \in DOMAIN pvd |-> setSunPositionData(pvd[v], pos, sd)]]
    ELSE IF view \in DOMAIN pvd
    THEN [def |-> def,
          pvd |-> [pvd EXCEPT ![view] = setSunPositionData(pvd[view], pos, sd)]]
    ELSE [def |-> def, pvd |-> pvd]

\* setMoonPosition( pos, view ), as a function of the two stores
setMoonPositionIn(def, pvd, pos, view) ==
    IF view = NullView
    THEN [def |-> setMoonPositionData(def, pos),
          pvd |-> [v \in DOMAIN pvd |-> setMoonPositionData(pvd[v], pos)]]
    ELSE IF view \in DOMAIN pvd
    THEN [def |-> def,
          pvd |-> [pvd EXCEPT ![view] = setMoonPositionData(pvd[view], pos)]]
    ELSE [def |-> def, pvd |-> pvd]

\* ------------------------------------------------------ clock propagation
\* rot_z without the -osg::PI offset
rot_z_NoOffset(dt) == (TWO_PI * dt.hh) \div (2 * HoursPerDay)

\* rot_z = -osg::PI + TWO_PI*time_r, time_r = dt.hours()/24.0
rot_z(dt) == (0 - Pi) + (TWO_PI * dt.hh) \div (2 * HoursPerDay)

\* starsMatrix = osg::Matrixd::rotate( -rot_z, 0, 0, 1 )
starsMatrixOf(dt) == Rotate(0 - rot_z(dt))

\* The angle of a rotation matrix
AngleOf(matrix) == IF matrix = Identity THEN 0 ELSE matrix.angle

\* onSetDateTime that multiplies the star rotation onto the stored one
onSetDateTime_Accumulate(def, pvd, dt, e, sd) ==
    LET sunPos == Normalize(getSunPositionECEF(e, dt))
        moonPos == getMoonPositionECEF(e, dt)
        s == setSunPositionIn(def, pvd, sunPos, NullView, sd)
        m == setMoonPositionIn(s.def, s.pvd, moonPos, NullView)
        starsMatrix == Rotate(AngleOf(def.starsMatrix) - rot_z(dt))
    IN  [def |-> [m.def EXCEPT !.starsMatrix = starsMatrix, !.date = dt],
         pvd |-> [v \in DOMAIN m.pvd |->
                    [m.pvd[v] EXCEPT !.starsMatrix = starsMatrix,
                                     !.starsXform.matrix = starsMatrix,
                                     !.date = dt]],
         moonPosition |-> moonPos]

\* onSetDateTime that leaves the registered views' stars and date alone
onSetDateTime_DefaultOnly(def, pvd, dt, e, sd) ==
    LET sunPos == Normalize(getSunPositionECEF(e, dt))
        moonPos == getMoonPositionECEF(e, dt)
        s == setSunPositionIn(def, pvd, sunPos, NullView, sd)
        m == setMoonPositionIn(s.def, s.pvd, moonPos, NullView)
        starsMatrix == starsMatrixOf(dt)
    IN  [def |-> [m.def EXCEPT !.starsMatrix = starsMatrix, !.date = dt],
         pvd |-> m.pvd,
         moonPosition |-> moonPos]

\* onSetDateTime(): its local 'view' is always 0L, so the per-view branch is
\* never taken; the result is the two stores and _moonPosition
onSetDateTime(def, pvd, dt, e, sd) ==
    LET sunPos == Normalize(getSunPositionECEF(e, dt))
        moonPos == getMoonPositionECEF(e, dt)
        s == setSunPositionIn(def, pvd, sunPos, NullView, sd)
        m == setMoonPositionIn(s.def, s.pvd, moonPos, NullView)
        starsMatrix == starsMatrixOf(dt)
    IN  [def |-> [m.def EXCEPT !.starsMatrix = starsMatrix, !.date = dt],
         pvd |-> [v \in DOMAIN m.pvd |->
                    [m.pvd[v] EXCEPT !.starsMatrix = starsMatrix,
                                     !.starsXform.matrix = starsMatrix,
                                     !.date = dt]],
         moonPosition |-> moonPos]

\* ---------------------------------------------------------- initialize()
\* _defaultPerViewData as initialize() leaves it before its closing
\* onSetDateTime(): the light and uniform, makeSun's and makeMoon's
\* transforms; makeStars builds _stars but no default star transform
defaultBeforeClock(r, e, dt, moonImage) ==
    LET lightPos == <<0, FixedPoint, 0>>
    IN  [ lightPos |-> lightPos,
          light |-> [valid |-> TRUE, id |-> ObjId(0, "light"), lightNum |-> 0,
                     position |-> <<lightPos[1], lightPos[2], lightPos[3], 0>>,
                     ambient |-> <<200, 200, 200, 2000>>],
          lightPosUniform |-> [valid |-> TRUE, id |-> ObjId(0, "uniform"),
                               value |-> Normalize(lightPos)],
          cullContainer |-> Null,
          sunXform |-> NewXform(0, "sunXform",
                          Translate(Scaled(r * SunDistanceFactor, lightPos)),
                          "sun", TRUE),
          sunMatrix |-> Identity,
          moonXform |-> NewXform(0, "moonXform",
                          Translate(getMoonPositionECEF(e, dt)),
                          "moon", moonImage),
          moonMatrix |-> Identity,
          starsXform |-> Null,
          starsMatrix |-> Identity,
          date |-> dt ]

\* ------------------------------------------------- makeSceneLighting()
\* A float kept exact, as the fraction num/den
Rat(n, d) == [num |-> n, den |-> d]
RatMul(a, b) == Rat(a.num * b.num, a.den * b.den)
RatSub(a, b) == Rat(a.num * b.den - b.num * a.den, a.den * b.den)
RatInv(a) == Rat(a.den, a.num)
RatEq(a, b) == a.num * b.den = b.num * a.den
\* ::powf(x, 4.0f)
Pow4(a) == RatMul(RatMul(a, a), RatMul(a, a))

\* _outerRadius = _innerRadius * 1.025f
outerRadiusOf(inner) == RatMul(Rat(inner, 1), Rat(1025, 1000))

\* Variant: the atmosphere shell has no thickness factor
makeSceneLighting_ScaleOfOuter(inner, outer) ==
    LET Kr == Rat(25, 10000)
        Km == Rat(15, 10000)
        ESun == Rat(15, 1)
        MPhase == Rat(0 - 95, 1000)
        RayleighScaleDepth == Rat(25, 100)
        Samples == 2
        Weather == Rat(1, 1)
        Scale == RatInv(outer)
    IN  [ atmos_v3InvWavelength |-> << RatInv(Pow4(Rat(13, 20))),
                                       RatInv(Pow4(Rat(57, 100))),
                                       RatInv(Pow4(Rat(19, 40))) >>,
          atmos_fInnerRadius |-> Rat(inner, 1),
          atmos_fInnerRadius2 |-> Rat(inner * inner, 1),
          atmos_fOuterRadius |-> outer,
          atmos_fOuterRadius2 |-> RatMul(outer, outer),
          atmos_fKrESun |-> RatMul(Kr, ESun),
          atmos_fKmESun |-> RatMul(Km, ESun),
          atmos_fKr4PI |-> RatMul(Kr, Rat(4, 1)),
          atmos_fKm4PI |-> RatMul(Km, Rat(4, 1)),
          atmos_fScale |-> Scale,
          atmos_fScaleDepth |-> RayleighScaleDepth,
          atmos_fScaleOverScaleDepth |-> RatMul(Scale, RatInv(RayleighScaleDepth)),
          atmos_g |-> MPhase,
          atmos_g2 |-> RatMul(MPhase, MPhase),
          atmos_nSamples |-> Samples,
          atmos_fSamples |-> Rat(Samples, 1),
          atmos_fWeather |-> Weather ]

\* The uniforms written on the node's own stateset; atmos_fKr4PI and
\* atmos_fKm4PI are kept as multiples of osg::PI.
makeSceneLighting(inner, outer) ==
    LET Kr == Rat(25, 10000)
        Km == Rat(15, 10000)
        ESun == Rat(15, 1)
        MPhase == Rat(0 - 95, 1000)
        RayleighScaleDepth == Rat(25, 100)
        Samples == 2
        Weather == Rat(1, 1)
        Scale == RatInv(RatSub(outer, Rat(inner, 1)))
    IN  [ atmos_v3InvWavelength |-> << RatInv(Pow4(Rat(13, 20))),
                                       RatInv(Pow4(Rat(57, 100))),
                                       RatInv(Pow4(Rat(19, 40))) >>,
          atmos_fInnerRadius |-> Rat(inner, 1),
          atmos_fInnerRadius2 |-> Rat(inner * inner, 1),
          atmos_fOuterRadius |-> outer,
          atmos_fOuterRadius2 |-> RatMul(outer, outer),
          atmos_fKrESun |-> RatMul(Kr, ESun),
          atmos_fKmESun |-> RatMul(Km, ESun),
          atmos_fKr4PI |-> RatMul(Kr, Rat(4, 1)),
          atmos_fKm4PI |-> RatMul(Km, Rat(4, 1)),
          atmos_fScale |-> Scale,
          atmos_fScaleDepth |-> RayleighScaleDepth,
          atmos_fScaleOverScaleDepth |-> RatMul(Scale, RatInv(RayleighScaleDepth)),
          atmos_g |-> MPhase,
          atmos_g2 |-> RatMul(MPhase, MPhase),
          atmos_nSamples |-> Samples,
          atmos_fSamples |-> Rat(Samples, 1),
          atmos_fWeather |-> Weather ]

\* ---------------------------------------------------------- initialize()
\* Variant: a missing moon texture leaves the moon flag as it was
makeMoonVisible_Ignored(visible, image) == visible

\* makeMoon(): without a moon image the moon is switched off
makeMoonVisible(visible, image) == IF ~image THEN FALSE ELSE visible

\* No builder is being stepped: construction is complete
NoWork == [job |-> "none"]

\* The node as initialize() leaves it; moonImage tells whether moon.jpg loaded
SkyInit(moonImage) ==
    \E r \in InnerRadii :
        LET e == InitialEphemeris
            dt == InitialDate
            c == onSetDateTime(defaultBeforeClock(r, e, dt, moonImage),
                               << >>, dt, e, r * SunDistanceFactor)
        IN  /\ innerRadius = r
            /\ outerRadius = outerRadiusOf(r)
            /\ uniforms = makeSceneLighting(r, outerRadiusOf(r))
            /\ ephemeris = e
            /\ dateTime = dt
            /\ sunVisible = TRUE
            /\ moonVisible = makeMoonVisible(TRUE, moonImage)
            /\ starsVisible = TRUE
            /\ autoAmbience = FALSE
            /\ moonPosition = c.moonPosition
            /\ defaultPerViewData = c.def
            /\ perViewData = c.pvd
            /\ viewState = [v \in Views |->
                              [lightingMode |-> "HEADLIGHT", light |-> NullId]]
            /\ attachCount = 0
            /\ cull = NoCull
            /\ visitor = [clampCallback |-> NoCallback]

Init ==
    /\ \E moonImage \in BOOLEAN : SkyInit(moonImage)
    /\ work = NoWork

\* --------------------------------------------------------------- attach()
\* What _perViewData[view] default-constructs for an unseen view
emptyPerViewData ==
    [ lightPos |-> <<0, 0, 0>>, light |-> Null, lightPosUniform |-> Null,
      cullContainer |-> Null, sunXform |-> Null, sunMatrix |-> Identity,
      moonXform |-> Null, moonMatrix |-> Identity, starsXform |-> Null,
      starsMatrix |-> Identity, date |-> [day |-> 0, hh |-> 0] ]

\* PerViewData& data = _perViewData[view]
lookupOrCreate(pvd, view) ==
    IF view \in DOMAIN pvd THEN pvd ELSE (view :> emptyPerViewData) @@ pvd

\* Variant: the default state's light is installed instead of a clone of it
attachData_SharedLight(data, def, gen, lightNum, sunVis, moonVis, starsVis, sd) ==
    LET light == [def.light EXCEPT !.lightNum = lightNum,
                                   !.ambient = def.light.ambient]
        lightPos == def.lightPos
        sunMatrix == Translate(Scaled(sd, lightPos))
        sunXform == NewXform(gen, "sunXform", sunMatrix, "_sun", sunVis)
        moonXform == NewXform(gen, "moonXform", def.moonMatrix, "_moon", moonVis)
        starsXform == NewXform(gen, "starsXform", def.starsMatrix, "_stars", starsVis)
        uniform == [def.lightPosUniform EXCEPT !.id = ObjId(gen, "uniform")]
    IN  [data EXCEPT
            !.light = light,
            !.lightPos = lightPos,
            !.cullContainer =
                [valid |-> TRUE, id |-> ObjId(gen, "cullContainer"),
                 children |-> << sunXform.id, moonXform.id, starsXform.id,
                                 "_atmosphere", ObjId(gen, "TraverseNode") >>,
                 uniform |-> uniform.id],
            !.sunXform = sunXform,
            !.sunMatrix = sunMatrix,
            !.moonXform = moonXform,
            !.moonMatrix = def.moonMatrix,
            !.starsXform = starsXform,
            !.starsMatrix = def.starsMatrix,
            !.lightPosUniform = uniform,
            !.date = def.date]

\* Variant: the cloned light keeps the default light's number
attachData_KeepsLightNum(data, def, gen, lightNum, sunVis, moonVis, starsVis, sd) ==
    LET light == [def.light EXCEPT !.id = ObjId(gen, "light"),
                                   !.ambient = def.light.ambient]
        lightPos == def.lightPos
        sunMatrix == Translate(Scaled(sd, lightPos))
        sunXform == NewXform(gen, "sunXform", sunMatrix, "_sun", sunVis)
        moonXform == NewXform(gen, "moonXform", def.moonMatrix, "_moon", moonVis)
        starsXform == NewXform(gen, "starsXform", def.starsMatrix, "_stars", starsVis)
        uniform == [def.lightPosUniform EXCEPT !.id = ObjId(gen, "uniform")]
    IN  [data EXCEPT
            !.light = light,
            !.lightPos = lightPos,
            !.cullContainer =
                [valid |-> TRUE, id |-> ObjId(gen, "cullContainer"),
                 children |-> << sunXform.id, moonXform.id, starsXform.id,
                                 "_atmosphere", ObjId(gen, "TraverseNode") >>,
                 uniform |-> uniform.id],
            !.sunXform = sunXform,
            !.sunMatrix = sunMatrix,
            !.moonXform = moonXform,
            !.moonMatrix = def.moonMatrix,
            !.starsXform = starsXform,
            !.starsMatrix = def.starsMatrix,
            !.lightPosUniform = uniform,
            !.date = def.date]

\* The assignments attach() makes to 'data' before its closing onSetDateTime()
attachData(data, def, gen, lightNum, sunVis, moonVis, starsVis, sd) ==
    LET light == [def.light EXCEPT !.id = ObjId(gen, "light"),
                                   !.lightNum = lightNum,
                                   !.ambient = def.light.ambient]
        lightPos == def.lightPos
        sunMatrix == Translate(Scaled(sd, lightPos))
        sunXform == NewXform(gen, "sunXform", sunMatrix, "_sun", sunVis)
        moonXform == NewXform(gen, "moonXform", def.moonMatrix, "_moon", moonVis)
        starsXform == NewXform(gen, "starsXform", def.starsMatrix, "_stars", starsVis)
        uniform == [def.lightPosUniform EXCEPT !.id = ObjId(gen, "uniform")]
    IN  [data EXCEPT
            !.light = light,
            !.lightPos = lightPos,
            !.cullContainer =
                [valid |-> TRUE, id |-> ObjId(gen, "cullContainer"),
                 children |-> << sunXform.id, moonXform.id, starsXform.id,
                                 "_atmosphere", ObjId(gen, "TraverseNode") >>,
                 uniform |-> uniform.id],
            !.sunXform = sunXform,
            !.sunMatrix = sunMatrix,
            !.moonXform = moonXform,
            !.moonMatrix = def.moonMatrix,
            !.starsXform = starsXform,
            !.starsMatrix = def.starsMatrix,
            !.lightPosUniform = uniform,
            !.date = def.date]

\* attach without its closing onSetDateTime()
attach_NoClock(view, lightNum) ==
    /\ ~cull.active
    /\ view # NullView
    /\ attachCount < MaxAttach
    /\ LET gen == attachCount + 1
           pvd0 == lookupOrCreate(perViewData, view)
           pvd1 == [pvd0 EXCEPT ![view] =
                       attachData(pvd0[view], defaultPerViewData, gen, lightNum,
                                  sunVisible, moonVisible, starsVisible,
                                  sunDistance)]
       IN  /\ attachCount' = gen
           /\ viewState' = [viewState EXCEPT ![view] =
                               [lightingMode |-> "SKY_LIGHT",
                                light |-> pvd1[view].light.id]]
           /\ perViewData' = pvd1
    /\ UNCHANGED << outerRadius, uniforms, visitor, work,
                    innerRadius, ephemeris, dateTime, sunVisible, moonVisible,
                    starsVisible, autoAmbience, moonPosition,
                    defaultPerViewData, cull >>

\* attach( view, lightNum ) with a non-null view
attach(view, lightNum) ==
    /\ ~cull.active
    /\ view # NullView
    /\ attachCount < MaxAttach
    /\ LET gen == attachCount + 1
           pvd0 == lookupOrCreate(perViewData, view)
           pvd1 == [pvd0 EXCEPT ![view] =
                       attachData(pvd0[view], defaultPerViewData, gen, lightNum,
                                  sunVisible, moonVisible, starsVisible,
                                  sunDistance)]
           c == onSetDateTime(defaultPerViewData, pvd1, dateTime, ephemeris,
                              sunDistance)
       IN  /\ attachCount' = gen
           /\ viewState' = [viewState EXCEPT ![view] =
                               [lightingMode |-> "SKY_LIGHT",
                                light |-> pvd1[view].light.id]]
           /\ defaultPerViewData' = c.def
           /\ perViewData' = c.pvd
           /\ moonPosition' = c.moonPosition
    /\ UNCHANGED << outerRadius, uniforms, visitor, work,
                    innerRadius, ephemeris, dateTime, sunVisible, moonVisible,
                    starsVisible, autoAmbience, cull >>

\* Variant: attach( 0, lightNum ) skips the registry but still runs the
\* closing onSetDateTime()
attachNull_Propagates(lightNum) ==
    /\ ~cull.active
    /\ LET c == onSetDateTime(defaultPerViewData, perViewData, dateTime,
                              ephemeris, sunDistance)
       IN  /\ defaultPerViewData' = c.def
           /\ perViewData' = c.pvd
           /\ moonPosition' = c.moonPosition
    /\ UNCHANGED << outerRadius, uniforms, visitor, work,
                    innerRadius, ephemeris, dateTime, sunVisible, moonVisible,
                    starsVisible, autoAmbience, viewState, attachCount, cull >>

\* attach( 0, lightNum ): if ( !view ) return
attachNull(lightNum) ==
    /\ ~cull.active
    /\ UNCHANGED << outerRadius, uniforms, visitor, work,
                    innerRadius, ephemeris, dateTime, sunVisible, moonVisible,
                    starsVisible, autoAmbience, moonPosition,
                    defaultPerViewData, perViewData, viewState, attachCount, cull >>

\* ------------------------------------------------- date/time and ephemeris
\* SkyNode::setDateTime( dt ): stores the date, then onSetDateTime()
setDateTime(dt) ==
    /\ ~cull.active
    /\ dateTime' = dt
    /\ LET c == onSetDateTime(defaultPerViewData, perViewData, dt, ephemeris,
                              sunDistance)
       IN  /\ defaultPerViewData' = c.def
           /\ perViewData' = c.pvd
           /\ moonPosition' = c.moonPosition
    /\ UNCHANGED << outerRadius, uniforms, visitor, work,
                    innerRadius, ephemeris, sunVisible, moonVisible,
                    starsVisible, autoAmbience, viewState, attachCount, cull >>

\* SkyNode::setEphemeris( e ): stores it, then onSetEphemeris(), which
\* triggers onSetDateTime()
setEphemeris(e) ==
    /\ ~cull.active
    /\ ephemeris' = e
    /\ LET c == onSetDateTime(defaultPerViewData, perViewData, dateTime, e,
                              sunDistance)
       IN  /\ defaultPerViewData' = c.def
           /\ perViewData' = c.pvd
           /\ moonPosition' = c.moonPosition
    /\ UNCHANGED << outerRadius, uniforms, visitor, work,
                    innerRadius, dateTime, sunVisible, moonVisible,
                    starsVisible, autoAmbience, viewState, attachCount, cull >>

\* ------------------------------------------------- sun and moon positions
\* setSunPosition( pos, view )
setSunPosition(pos, view) ==
    /\ ~cull.active
    /\ LET s == setSunPositionIn(defaultPerViewData, perViewData, pos, view,
                                 sunDistance)
       IN  /\ defaultPerViewData' = s.def
           /\ perViewData' = s.pvd
    /\ UNCHANGED << outerRadius, uniforms, visitor, work,
                    innerRadius, ephemeris, dateTime, sunVisible, moonVisible,
                    starsVisible, autoAmbience, moonPosition, viewState,
                    attachCount, cull >>

\* setMoonPosition( pos, view )
setMoonPosition(pos, view) ==
    /\ ~cull.active
    /\ moonPosition' = pos
    /\ LET m == setMoonPositionIn(defaultPerViewData, perViewData, pos, view)
       IN  /\ defaultPerViewData' = m.def
           /\ perViewData' = m.pvd
    /\ UNCHANGED << outerRadius, uniforms, visitor, work,
                    innerRadius, ephemeris, dateTime, sunVisible, moonVisible,
                    starsVisible, autoAmbience, viewState, attachCount, cull >>

\* ------------------------------------------------------------- visibility
\* onSetSunVisible that masks the default state's sun only
onSetSunVisible_DefaultOnly(def, pvd, visible) ==
    IF def.sunXform.valid
    THEN [def |-> [def EXCEPT !.sunXform.mask = Mask(visible)], pvd |-> pvd]
    ELSE [def |-> def, pvd |-> pvd]

\* onSetSunVisible(), with visible = getSunVisible()
onSetSunVisible(def, pvd, visible) ==
    IF def.sunXform.valid
    THEN [def |-> [def EXCEPT !.sunXform.mask = Mask(visible)],
          pvd |-> [v \in DOMAIN pvd |->
                     [pvd[v] EXCEPT !.sunXform.mask = Mask(visible)]]]
    ELSE [def |-> def, pvd |-> pvd]

\* onSetMoonVisible(), with visible = getMoonVisible()
onSetMoonVisible(def, pvd, visible) ==
    IF def.moonXform.valid
    THEN [def |-> [def EXCEPT !.moonXform.mask = Mask(visible)],
          pvd |-> [v \in DOMAIN pvd |->
                     [pvd[v] EXCEPT !.moonXform.mask = Mask(visible)]]]
    ELSE [def |-> def, pvd |-> pvd]

\* onSetStarsVisible(), with visible = getStarsVisible()
onSetStarsVisible(def, pvd, visible) ==
    IF def.starsXform.valid
    THEN [def |-> [def EXCEPT !.starsXform.mask = Mask(visible)],
          pvd |-> [v \in DOMAIN pvd |->
                     [pvd[v] EXCEPT !.starsXform.mask = Mask(visible)]]]
    ELSE [def |-> def, pvd |-> pvd]

\* SkyNode::setSunVisible( value ): stores the flag, then onSetSunVisible()
setSunVisible(value) ==
    /\ ~cull.active
    /\ sunVisible' = value
    /\ LET r == onSetSunVisible(defaultPerViewData, perViewData, value)
       IN  /\ defaultPerViewData' = r.def
           /\ perViewData' = r.pvd
    /\ UNCHANGED << outerRadius, uniforms, visitor, work,
                    innerRadius, ephemeris, dateTime, moonVisible,
                    starsVisible, autoAmbience, moonPosition, viewState,
                    attachCount, cull >>

\* SkyNode::setMoonVisible( value ): stores the flag, then onSetMoonVisible()
setMoonVisible(value) ==
    /\ ~cull.active
    /\ moonVisible' = value
    /\ LET r == onSetMoonVisible(defaultPerViewData, perViewData, value)
       IN  /\ defaultPerViewData' = r.def
           /\ perViewData' = r.pvd
    /\ UNCHANGED << outerRadius, uniforms, visitor, work,
                    innerRadius, ephemeris, dateTime, sunVisible,
                    starsVisible, autoAmbience, moonPosition, viewState,
                    attachCount, cull >>

\* SkyNode::setStarsVisible( value ): stores the flag, then onSetStarsVisible()
setStarsVisible(value) ==
    /\ ~cull.active
    /\ starsVisible' = value
    /\ LET r == onSetStarsVisible(defaultPerViewData, perViewData, value)
       IN  /\ defaultPerViewData' = r.def
           /\ perViewData' = r.pvd
    /\ UNCHANGED << outerRadius, uniforms, visitor, work,
                    innerRadius, ephemeris, dateTime, sunVisible,
                    moonVisible, autoAmbience, moonPosition, viewState,
                    attachCount, cull >>

\* -------------------------------------------------------------- traverse()
\* The smallest key: _perViewData.begin() of a non-empty map
beginKey(pvd) == CHOOSE k \in DOMAIN pvd : \A j \in DOMAIN pvd : k <= j

\* resolve that always takes begin()
resolve_AlwaysBegin(pvd, view) ==
    IF DOMAIN pvd # {} THEN [valid |-> TRUE, key |-> beginKey(pvd)]
    ELSE [valid |-> FALSE]

\* itr = _perViewData.find( view ); if ( itr == end() ) itr = begin();
\* on an empty map begin() is end(), which is no entry
resolve(pvd, view) ==
    IF view \in DOMAIN pvd THEN [valid |-> TRUE, key |-> view]
    ELSE IF DOMAIN pvd # {} THEN [valid |-> TRUE, key |-> beginKey(pvd)]
    ELSE [valid |-> FALSE]

\* osg::clampBetween
clampBetween(v, lo, hi) == IF v < lo THEN lo ELSE IF v > hi THEN hi ELSE v

\* eye*sun of the normalized eye point and light position, in thousandths
eyeDotSunOf(eye, sun) ==
    (Dot(Normalize(eye), Normalize(sun)) * 1000) \div (FixedPoint * FixedPoint)

\* Variant: the deviation is not clamped
ambientOf_NoClamp(eyeDotSun) ==
    200 + ((eyeDotSun - (0 - 200)) * (920 - 200)) \div (750 - (0 - 200))

\* The ambient intensity of the _autoAmbience block, in thousandths:
\* dev = clamp(eye*sun, -0.2, 0.75), r = (dev-minDev)/(maxDev-minDev),
\* amb = minAmb + r*(maxAmb-minAmb)
ambientOf(eyeDotSun) ==
    LET dev == clampBetween(eyeDotSun, 0 - 200, 750)
    IN  200 + ((dev - (0 - 200)) * (920 - 200)) \div (750 - (0 - 200))

\* eye and sun normalized, then the ambient intensity of their product
autoAmbient(eye, sun) == ambientOf(eyeDotSunOf(eye, sun))

\* Variant: the automatic ambience is written to every registered light
traverseCull_AllLights(view) ==
    /\ ~cull.active
    /\ visitor' = [visitor EXCEPT !.clampCallback = NoCallback]
    /\ LET itr == resolve(perViewData, view)
           cb == visitor.clampCallback
       IN  IF itr.valid
           THEN IF autoAmbience
                THEN \E eye \in EyeInputs :
                       LET amb == autoAmbient(eye, perViewData[itr.key].lightPos)
                       IN  /\ perViewData' =
                                [v \in DOMAIN perViewData |->
                                   [perViewData[v] EXCEPT !.light.ambient =
                                      <<amb, amb, amb, 1000>>]]
                           /\ cull' = [active |-> TRUE, view |-> view,
                                       itr |-> itr, eye |-> eye, cb |-> cb,
                                       accepted |->
                                         perViewData[itr.key].cullContainer.id]
                ELSE /\ cull' = [active |-> TRUE, view |-> view, itr |-> itr,
                                 cb |-> cb,
                                 accepted |->
                                   perViewData[itr.key].cullContainer.id]
                     /\ UNCHANGED perViewData
           ELSE /\ \E outcome \in {"crash", "garbage"} :
                      cull' = [active |-> TRUE, view |-> view, itr |-> itr,
                               cb |-> cb,
                               accepted |-> ObjId(0, outcome)]
                /\ UNCHANGED perViewData
    /\ UNCHANGED << outerRadius, uniforms, work,
                    innerRadius, ephemeris, dateTime, sunVisible, moonVisible,
                    starsVisible, autoAmbience, moonPosition,
                    defaultPerViewData, viewState, attachCount >>

\* traverse( nv ) of a cull visitor whose current camera belongs to 'view',
\* up to the point where the visitor is inside the resolved container.
\* Dereferencing end() is undefined: the visitor goes nowhere (a crash) or
\* into whatever the bytes at end() denote.
traverseCull(view) ==
    /\ ~cull.active
    /\ visitor' = [visitor EXCEPT !.clampCallback = NoCallback]
    /\ LET itr == resolve(perViewData, view)
           cb == visitor.clampCallback
       IN  IF itr.valid
           THEN IF autoAmbience
                THEN \E eye \in EyeInputs :
                       LET amb == autoAmbient(eye, perViewData[itr.key].lightPos)
                       IN  /\ perViewData' =
                                [perViewData EXCEPT ![itr.key].light.ambient =
                                    <<amb, amb, amb, 1000>>]
                           /\ cull' = [active |-> TRUE, view |-> view,
                                       itr |-> itr, eye |-> eye, cb |-> cb,
                                       accepted |->
                                         perViewData[itr.key].cullContainer.id]
                ELSE /\ cull' = [active |-> TRUE, view |-> view, itr |-> itr,
                                 cb |-> cb,
                                 accepted |->
                                   perViewData[itr.key].cullContainer.id]
                     /\ UNCHANGED perViewData
           ELSE /\ \E outcome \in {"crash", "garbage"} :
                      cull' = [active |-> TRUE, view |-> view, itr |-> itr,
                               cb |-> cb,
                               accepted |-> ObjId(0, outcome)]
                /\ UNCHANGED perViewData
    /\ UNCHANGED << outerRadius, uniforms, work,
                    innerRadius, ephemeris, dateTime, sunVisible, moonVisible,
                    starsVisible, autoAmbience, moonPosition,
                    defaultPerViewData, viewState, attachCount >>

\* Variant: the callback taken off on entry is not put back
traverseReturn_NoRestore ==
    /\ cull.active
    /\ cull.accepted # ObjId(0, "crash")
    /\ cull' = NoCull
    /\ UNCHANGED << outerRadius, uniforms, work, visitor,
                    innerRadius, ephemeris, dateTime, sunVisible, moonVisible,
                    starsVisible, autoAmbience, moonPosition,
                    defaultPerViewData, perViewData, viewState, attachCount >>

\* The visitor comes back out of the container, a callback taken off on
\* entry is put back, and traverse() returns
traverseReturn ==
    /\ cull.active
    /\ cull.accepted # ObjId(0, "crash")
    /\ cull' = NoCull
    /\ visitor' = IF cull.cb # NoCallback
                  THEN [visitor EXCEPT !.clampCallback = cull.cb]
                  ELSE visitor
    /\ UNCHANGED << outerRadius, uniforms, work,
                    innerRadius, ephemeris, dateTime, sunVisible, moonVisible,
                    starsVisible, autoAmbience, moonPosition,
                    defaultPerViewData, perViewData, viewState, attachCount >>

\* Between frames the application gives the cull visitor a clamp callback, or
\* takes it away: what cv->getClampProjectionMatrixCallback() will return
installClampCallback(cb) ==
    /\ ~cull.active
    /\ visitor' = [visitor EXCEPT !.clampCallback = cb]
    /\ UNCHANGED << outerRadius, uniforms, work,
                    innerRadius, ephemeris, dateTime, sunVisible, moonVisible,
                    starsVisible, autoAmbience, moonPosition,
                    defaultPerViewData, perViewData, viewState, attachCount,
                    cull >>

\* setAutoAmbience( value )
setAutoAmbience(value) ==
    /\ ~cull.active
    /\ autoAmbience' = value
    /\ UNCHANGED << outerRadius, uniforms, visitor, work,
                    innerRadius, ephemeris, dateTime, sunVisible, moonVisible,
                    starsVisible, moonPosition, defaultPerViewData,
                    perViewData, viewState, attachCount, cull >>

\* traverse( nv ) of any other visitor: osg::Group::traverse( nv )
traverseOther ==
    /\ ~cull.active
    /\ UNCHANGED vars

\* ------------------------------------------------ the geometry builders
\* int lonSegments = 2 * latSegments
lonSegments == 2 * latSegments

\* Variant: the element array holds 8-bit indices
UShort_Byte(v) == v % 256

\* el->push_back( v ) of a DrawElementsUShort: the value as a GLushort
UShort(v) == v % 65536

\* Variant: the last column is joined to a column past the end of its row
quadOf_NoWrap(y, x) ==
    LET x_plus_1 == x + 1
        y_plus_1 == y + 1
    IN  << UShort(y * lonSegments + x),
           UShort(y_plus_1 * lonSegments + x),
           UShort(y * lonSegments + x_plus_1),
           UShort(y * lonSegments + x_plus_1),
           UShort(y_plus_1 * lonSegments + x),
           UShort(y_plus_1 * lonSegments + x_plus_1) >>

\* The six indices s_makeEllipsoidGeometry pushes for the quad at (y, x)
quadOf(y, x) ==
    LET x_plus_1 == IF x < lonSegments - 1 THEN x + 1 ELSE 0
        y_plus_1 == y + 1
    IN  << UShort(y * lonSegments + x),
           UShort(y_plus_1 * lonSegments + x),
           UShort(y * lonSegments + x_plus_1),
           UShort(y * lonSegments + x_plus_1),
           UShort(y_plus_1 * lonSegments + x),
           UShort(y_plus_1 * lonSegments + x_plus_1) >>

\* s_makeEllipsoidGeometry as it enters its loops.  The arrays are carried
\* by their lengths; quad is the block of indices pushed last.
ellipsoidStart(genTexCoords) ==
    [ job |-> "ellipsoid", pc |-> "loop", genTexCoords |-> genTexCoords,
      hasNormals |-> genTexCoords, y |-> 0, x |-> 0, verts |-> 0,
      texCoords |-> 0, normals |-> 0, el |-> 0, quad |-> << >> ]

\* One turn of the inner loop of s_makeEllipsoidGeometry, and the loop
\* counters after it
makeEllipsoidGeometry ==
    /\ work.job = "ellipsoid" /\ work.pc = "loop"
    /\ LET y == work.y
           x == work.x
           last == (x + 1 >= lonSegments)
       IN  work' = [work EXCEPT
                      !.verts = @ + 1,
                      !.texCoords = IF work.genTexCoords THEN @ + 1 ELSE @,
                      !.normals = IF work.hasNormals THEN @ + 1 ELSE @,
                      !.el = IF y < latSegments THEN @ + 6 ELSE @,
                      !.quad = IF y < latSegments THEN quadOf(y, x) ELSE << >>,
                      !.x = IF last THEN 0 ELSE x + 1,
                      !.y = IF last THEN y + 1 ELSE y,
                      !.pc = IF last /\ y + 1 > latSegments
                             THEN "done" ELSE "loop"]
    /\ UNCHANGED << outerRadius, uniforms, visitor,
                    innerRadius, ephemeris, dateTime, sunVisible, moonVisible,
                    starsVisible, autoAmbience, moonPosition,
                    defaultPerViewData, perViewData, viewState, attachCount,
                    cull >>

\* Variant: the last triangle is joined to a vertex past the perimeter
discTriangle_NoWrap(i) ==
    LET i_plus_1 == i + 1
    IN  << UShort(0), UShort(1 + i_plus_1), UShort(1 + i) >>

\* The three indices s_makeDiscGeometry pushes for segment i
discTriangle(i) ==
    LET i_plus_1 == IF i < segments - 1 THEN i + 1 ELSE 0
    IN  << UShort(0), UShort(1 + i_plus_1), UShort(1 + i) >>

\* s_makeDiscGeometry as it enters its loop, the center point pushed
discStart ==
    [ job |-> "disc", pc |-> "loop", i |-> 0, verts |-> 1, el |-> << >> ]

\* One turn of the loop of s_makeDiscGeometry
makeDiscGeometry ==
    /\ work.job = "disc" /\ work.pc = "loop"
    /\ work' = [work EXCEPT
                  !.verts = @ + 1,
                  !.el = @ \o discTriangle(work.i),
                  !.i = @ + 1,
                  !.pc = IF work.i + 1 < segments THEN "loop" ELSE "done"]
    /\ UNCHANGED << outerRadius, uniforms, visitor,
                    innerRadius, ephemeris, dateTime, sunVisible, moonVisible,
                    starsVisible, autoAmbience, moonPosition,
                    defaultPerViewData, perViewData, viewState, attachCount,
                    cull >>

\* ---------------------------------------------- makeStars(), the catalog
\* A numeric field as written in a line: num tells whether it reads as a
\* number; magnitudes are in hundredths
Field(v) == [num |-> TRUE, val |-> v]
NotANumber == [num |-> FALSE, val |-> 0]

\* std::stringstream(buff) >> x: a field that does not read as a number, or
\* is missing, leaves 0
readNumber(fields, k) ==
    IF k <= Len(fields) /\ fields[k].num THEN fields[k].val ELSE 0

\* Lines of a catalog: first is the line's first character ("" for an empty
\* line), name the text up to the first comma, fields the text between the
\* later commas
BlankLine == [first |-> "", name |-> "", fields |-> << >>]
CommentLine == [first |-> "#", name |-> "# name,ra,decl,mag", fields |-> << >>]
SiriusLine == [first |-> "S", name |-> "Sirius",
               fields |-> << Field(177), Field(0 - 29), Field(0 - 146) >>]
DimLine == [first |-> "D", name |-> "Dim",
            fields |-> << Field(10), Field(20), Field(600) >>]
BadLine == [first |-> "B", name |-> "Bad",
            fields |-> << Field(30), Field(40), NotANumber >>]
LineInputs == { BlankLine, CommentLine, SiriusLine, DimLine, BadLine }

\* s_defaultStarData, the built-in table, as the lines it holds
s_defaultStarData ==
    << SiriusLine,
       [first |-> "C", name |-> "Canopus",
        fields |-> << Field(168), Field(0 - 92), Field(0 - 72) >>],
       [first |-> "V", name |-> "Vega",
        fields |-> << Field(487), Field(68), Field(3) >>],
       DimLine >>

\* StarData::StarData( ss )
StarData(line) ==
    [ name |-> line.name,
      right_ascension |-> readNumber(line.fields, 1),
      declination |-> readNumber(line.fields, 2),
      magnitude |-> readNumber(line.fields, 3) ]

\* Variant: every record is kept
pushStar_Unfiltered(out_stars, line, m) == Append(out_stars, StarData(line))

\* out_stars.push_back( StarData(ss) ), then pop_back() if its magnitude is
\* below _minStarMagnitude
pushStar(out_stars, line, m) ==
    LET pushed == Append(out_stars, StarData(line))
    IN  IF pushed[Len(pushed)].magnitude < m
        THEN SubSeq(pushed, 1, Len(pushed) - 1)
        ELSE pushed

\* getDefaultStars: the loop over s_defaultStarData from entry k on
RECURSIVE defaultStarsFrom(_, _, _)
defaultStarsFrom(out_stars, k, m) ==
    IF k > Len(s_defaultStarData) THEN out_stars
    ELSE defaultStarsFrom(pushStar(out_stars, s_defaultStarData[k], m), k + 1, m)

\* getDefaultStars( out_stars )
getDefaultStars(m) == defaultStarsFrom(<< >>, 1, m)

\* std::getline( in, line ) with the stream at line pos of the file: the
\* line read and the eof bit afterwards.  The bit is set when the end of the
\* file is reached before a newline.
getline(file, pos) ==
    IF pos > Len(file.lines) THEN [line |-> BlankLine, eof |-> TRUE]
    ELSE [line |-> file.lines[pos],
          eof |-> (pos = Len(file.lines) /\ ~file.terminated)]

\* The star catalogs tried: no file configured, a file that cannot be
\* opened, and every file of at most MaxLines lines, with and without a
\* newline after its last line
StarFiles ==
    { [isSet |-> FALSE, opens |-> FALSE, lines |-> << >>, terminated |-> TRUE],
      [isSet |-> TRUE, opens |-> FALSE, lines |-> << >>, terminated |-> TRUE] }
    \cup
    { [isSet |-> TRUE, opens |-> TRUE, lines |-> l, terminated |-> t] :
        l \in UNION { [1 .. n -> LineInputs] : n \in 0 .. MaxLines },
        t \in BOOLEAN }

\* _minStarMagnitude as the options leave it (-1.0 when not configured)
MagnitudeInputs == { 0 - 100, 300 }

\* OSGEARTH_MIN_STAR_MAGNITUDE: unset, a number, or text that is no number
EnvInputs == { [set |-> FALSE, text |-> NotANumber],
               [set |-> TRUE, text |-> Field(700)],
               [set |-> TRUE, text |-> NotANumber] }

\* initialize(), lines 231-236: a negative _minStarMagnitude takes the
\* environment's value, as<float>( magEnv, -1.0f )
readEnvironment ==
    /\ work.job = "stars" /\ work.pc = "initialize"
    /\ work' = [work EXCEPT
                  !.minStarMagnitude =
                      IF @ < 0 /\ work.env.set
                      THEN IF work.env.text.num THEN work.env.text.val
                           ELSE 0 - 100
                      ELSE @,
                  !.pc = "makeStars"]
    /\ UNCHANGED << outerRadius, uniforms, visitor,
                    innerRadius, ephemeris, dateTime, sunVisible, moonVisible,
                    starsVisible, autoAmbience, moonPosition,
                    defaultPerViewData, perViewData, viewState, attachCount,
                    cull >>

\* makeStars() up to the first read: without a configured file nothing is
\* parsed; parseStarFile clears out_stars and, when the file does not open,
\* warns and returns false, and makeStars warns in turn
openStarFile ==
    /\ work.job = "stars" /\ work.pc = "makeStars"
    /\ work' =
          IF ~work.starFile.isSet
          THEN [work EXCEPT !.pc = "fallback"]
          ELSE IF ~work.starFile.opens
          THEN [work EXCEPT !.stars = << >>,
                            !.result = "false",
                            !.warnings = @ \o << "Unable to open file star file",
                                                "Unable to use star field" >>,
                            !.pc = "fallback"]
          ELSE [work EXCEPT !.stars = << >>, !.pos = 1, !.pc = "parse"]
    /\ UNCHANGED << outerRadius, uniforms, visitor,
                    innerRadius, ephemeris, dateTime, sunVisible, moonVisible,
                    starsVisible, autoAmbience, moonPosition,
                    defaultPerViewData, perViewData, viewState, attachCount,
                    cull >>

\* One turn of parseStarFile's loop: while (!in.eof()) { getline; if
\* (in.eof()) break; skip empty and '#' lines; push, pop when too low }
parseLine(w) ==
    LET g == getline(w.starFile, w.pos)
    IN  IF w.eof \/ g.eof
        THEN [w EXCEPT !.eof = TRUE, !.result = "true", !.pc = "fallback"]
        ELSE IF g.line.first = "" \/ g.line.first = "#"
        THEN [w EXCEPT !.pos = @ + 1]
        ELSE [w EXCEPT !.pos = @ + 1,
                       !.decoded = Append(@, StarData(g.line)),
                       !.stars = pushStar(@, g.line, w.minStarMagnitude)]

\* parseStarFile's loop, one turn at a time
parseStarFile ==
    /\ work.job = "stars" /\ work.pc = "parse"
    /\ work' = parseLine(work)
    /\ UNCHANGED << outerRadius, uniforms, visitor,
                    innerRadius, ephemeris, dateTime, sunVisible, moonVisible,
                    starsVisible, autoAmbience, moonPosition,
                    defaultPerViewData, perViewData, viewState, attachCount,
                    cull >>

\* makeStars(): if ( stars.empty() )
useDefault(w) == w.stars = << >>

\* makeStars() after the file: an empty list is filled from the built-in
\* table, and the list becomes the star field
makeStars ==
    /\ work.job = "stars" /\ work.pc = "fallback"
    /\ work' =
          IF useDefault(work)
          THEN [work EXCEPT !.stars = getDefaultStars(work.minStarMagnitude),
                            !.usedDefault = TRUE,
                            !.pc = "done"]
          ELSE [work EXCEPT !.pc = "done"]
    /\ UNCHANGED << outerRadius, uniforms, visitor,
                    innerRadius, ephemeris, dateTime, sunVisible, moonVisible,
                    starsVisible, autoAmbience, moonPosition,
                    defaultPerViewData, perViewData, viewState, attachCount,
                    cull >>

\* ---------------------------------------------------------- specifications
\* The node driven through attach, the clock, the ephemeris, the visibility
\* flags and the traversal
Next ==
    \/ \E view \in Views, lightNum \in LightNums : attach(view, lightNum)
    \/ \E lightNum \in LightNums : attachNull(lightNum)
    \/ \E dt \in Dates : setDateTime(dt)
    \/ \E e \in Ephemerides : setEphemeris(e)
    \/ \E value \in BOOLEAN : setSunVisible(value)
    \/ \E value \in BOOLEAN : setMoonVisible(value)
    \/ \E value \in BOOLEAN : setStarsVisible(value)
    \/ \E view \in Views \cup {NullView} : traverseCull(view)
    \/ traverseReturn
    \/ traverseOther

Spec == Init /\ [][Next]_vars

\* The node driven through attach, the clock, the sun and moon position
\* setters and the traversal, the ephemeris and the visibility flags left as
\* initialize() set them
NextPos ==
    \/ \E view \in Views, lightNum \in LightNums : attach(view, lightNum)
    \/ \E lightNum \in LightNums : attachNull(lightNum)
    \/ \E dt \in Dates : setDateTime(dt)
    \/ \E pos \in SunInputs, view \in Views \cup {NullView} :
          setSunPosition(pos, view)
    \/ \E pos \in MoonInputs, view \in Views \cup {NullView} :
          setMoonPosition(pos, view)
    \/ \E view \in Views \cup {NullView} : traverseCull(view)
    \/ traverseReturn
    \/ traverseOther

SpecPos == Init /\ [][NextPos]_vars

\* The node driven through every operation, one view being attached
NextAll ==
    \/ \E lightNum \in LightNums : attach(1, lightNum)
    \/ \E lightNum \in LightNums : attachNull(lightNum)
    \/ \E dt \in Dates : setDateTime(dt)
    \/ \E pos \in SunInputs, view \in Views \cup {NullView} :
          setSunPosition(pos, view)
    \/ \E pos \in MoonInputs, view \in Views \cup {NullView} :
          setMoonPosition(pos, view)
    \/ \E value \in BOOLEAN : setSunVisible(value)
    \/ \E value \in BOOLEAN : setMoonVisible(value)
    \/ \E value \in BOOLEAN : setStarsVisible(value)
    \/ \E view \in Views \cup {NullView} : traverseCull(view)
    \/ traverseReturn
    \/ traverseOther

SpecAll == Init /\ [][NextAll]_vars

\* The node constructed without its moon texture and driven through attach,
\* the clock, the visibility flags (the moon's never switched on) and the
\* traversal
InitNoMoon ==
    /\ SkyInit(FALSE)
    /\ work = NoWork

NextNoMoon ==
    \/ \E view \in Views, lightNum \in LightNums : attach(view, lightNum)
    \/ \E dt \in Dates : setDateTime(dt)
    \/ \E value \in BOOLEAN : setSunVisible(value)
    \/ setMoonVisible(FALSE)
    \/ \E value \in BOOLEAN : setStarsVisible(value)
    \/ \E view \in Views \cup {NullView} : traverseCull(view)
    \/ traverseReturn

SpecNoMoon == InitNoMoon /\ [][NextNoMoon]_vars

\* The node driven through attach with several light numbers, the clock and
\* the traversal
NextLight ==
    \/ \E view \in Views, lightNum \in LightChannels : attach(view, lightNum)
    \/ \E dt \in Dates : setDateTime(dt)
    \/ \E view \in Views \cup {NullView} : traverseCull(view)
    \/ traverseReturn

SpecLight == Init /\ [][NextLight]_vars

\* The node traversed by a cull visitor that carries a clamp callback or
\* none, and by other visitors
NextClamp ==
    \/ \E view \in Views, lightNum \in LightNums : attach(view, lightNum)
    \/ \E cb \in Callbacks : installClampCallback(cb)
    \/ \E view \in Views \cup {NullView} : traverseCull(view)
    \/ traverseReturn
    \/ traverseOther

SpecClamp == Init /\ [][NextClamp]_vars

\* The node driven through attach and the traversal with the automatic
\* ambience switched on and off
NextAmbience ==
    \/ \E view \in Views, lightNum \in LightNums : attach(view, lightNum)
    \/ \E value \in BOOLEAN : setAutoAmbience(value)
    \/ \E view \in Views \cup {NullView} : traverseCull(view)
    \/ traverseReturn

SpecAmbience == Init /\ [][NextAmbience]_vars

\* The star field being built by initialize() from the options and the
\* environment, the rest of the node held as constructed
InitStars ==
    /\ SkyInit(TRUE)
    /\ \E f \in StarFiles, m \in MagnitudeInputs, env \in EnvInputs :
          work = [ job |-> "stars", pc |-> "initialize", starFile |-> f,
                   minStarMagnitude |-> m, env |-> env, pos |-> 0,
                   eof |-> FALSE, stars |-> << >>, decoded |-> << >>,
                   result |-> "none", warnings |-> << >>,
                   usedDefault |-> FALSE ]

NextStars ==
    \/ readEnvironment
    \/ openStarFile
    \/ parseStarFile
    \/ makeStars

SpecStars == InitStars /\ [][NextStars]_vars

\* The geometry builders run by makeAtmosphere (no texture coordinates),
\* makeMoon (texture coordinates and normals) and makeSun (the disc), the
\* rest of the node held as constructed
InitMesh ==
    /\ SkyInit(TRUE)
    /\ work \in { ellipsoidStart(FALSE), ellipsoidStart(TRUE), discStart }

NextMesh ==
    \/ makeEllipsoidGeometry
    \/ makeDiscGeometry

SpecMesh == InitMesh /\ [][NextMesh]_vars

\* ------------------------------------------------- what a date determines
\* The sun direction, sun/moon/star matrices onSetDateTime derives from a date
sunDirectionAt(e, dt) == Normalize(getSunPositionECEF(e, dt))
sunMatrixAt(e, dt, r) ==
    Translate(Scaled(r * SunDistanceFactor, sunDirectionAt(e, dt)))
moonMatrixAt(e, dt) == Translate(getMoonPositionECEF(e, dt))

\* -------------------------------------------------------------------- C1
\* C1: attach on a handle that is already registered leaves the number of
\* registry entries unchanged, and the handle's state afterwards still has
\* the date it had (the date most recently applied) and the sun, moon and
\* star transforms derived from that date.
C1_ReattachKeepsState ==
    [][ \A view \in DOMAIN perViewData :
          (\E lightNum \in LightNums : attach(view, lightNum)) =>
            /\ Cardinality(DOMAIN perViewData') = Cardinality(DOMAIN perViewData)
            /\ perViewData'[view].date = perViewData[view].date
            /\ perViewData'[view].date = dateTime
            /\ perViewData'[view].sunXform.matrix =
                  sunMatrixAt(ephemeris, dateTime, innerRadius)
            /\ perViewData'[view].moonXform.matrix =
                  moonMatrixAt(ephemeris, dateTime)
            /\ perViewData'[view].starsXform.matrix = starsMatrixOf(dateTime)
      ]_vars

\* A handle attached twice, after a date/time change
C1_Witness ==
    /\ attachCount = 2
    /\ DOMAIN perViewData = {1}
    /\ perViewData[1].light.id = ObjId(2, "light")
    /\ dateTime # InitialDate

\* -------------------------------------------------------------------- C2
\* C2: a cull traversal, after any operations and also with no attach at
\* all, resolves to an existing per-view state.
C2_TraversalResolves == cull.active => cull.itr.valid

\* -------------------------------------------------------------------- C3
\* C3: a cull traversal whose view is registered resolves to that view's own
\* entry and sends the visitor into that entry's container, which is no
\* other entry's container.
C3_ResolvesOwnState ==
    (cull.active /\ cull.view \in DOMAIN perViewData) =>
        /\ cull.itr = [valid |-> TRUE, key |-> cull.view]
        /\ cull.accepted = perViewData[cull.view].cullContainer.id
        /\ \A other \in DOMAIN perViewData \ {cull.view} :
              cull.accepted # perViewData[other].cullContainer.id

\* The second of two registered views is being traversed
C3_Witness ==
    /\ cull.active
    /\ DOMAIN perViewData = {1, 2}
    /\ cull.view = 2

\* -------------------------------------------------------------------- C4
\* C4: setting the stars invisible masks the star transform of the default
\* state (where it has one) and of every registered state, and leaves every
\* sun and moon mask as it was.
C4_StarsHidden ==
    [][ setStarsVisible(FALSE) =>
          /\ defaultPerViewData'.starsXform.valid =>
                defaultPerViewData'.starsXform.mask = Mask(FALSE)
          /\ \A v \in DOMAIN perViewData' :
                /\ perViewData'[v].starsXform.mask = Mask(FALSE)
                /\ perViewData'[v].sunXform.mask = perViewData[v].sunXform.mask
                /\ perViewData'[v].moonXform.mask = perViewData[v].moonXform.mask
          /\ defaultPerViewData'.sunXform.mask = defaultPerViewData.sunXform.mask
          /\ defaultPerViewData'.moonXform.mask = defaultPerViewData.moonXform.mask
      ]_vars

\* -------------------------------------------------------------------- C5
\* C5: the sun mask and the moon mask of the default state and of every
\* registered state are the masks of the current sun-visible and
\* moon-visible flags.
C5_MasksFollowFlags ==
    /\ defaultPerViewData.sunXform.mask = Mask(sunVisible)
    /\ defaultPerViewData.moonXform.mask = Mask(moonVisible)
    /\ \A v \in DOMAIN perViewData :
          /\ perViewData[v].sunXform.mask = Mask(sunVisible)
          /\ perViewData[v].moonXform.mask = Mask(moonVisible)

\* Two registered views, the sun switched off and the moon on
C5_Witness ==
    /\ DOMAIN perViewData = {1, 2}
    /\ ~sunVisible
    /\ moonVisible
    /\ perViewData[2].sunXform.mask = Mask(FALSE)

\* -------------------------------------------------------------------- C6
\* C6: the date stored in the default state and in every registered state is
\* the shared date, and each state's star rotation, sun direction and moon
\* position are the ones derived from it.
C6_DerivedFrom(data) ==
    /\ data.date = dateTime
    /\ data.starsMatrix = starsMatrixOf(dateTime)
    /\ data.lightPos = sunDirectionAt(ephemeris, dateTime)
    /\ data.moonMatrix = moonMatrixAt(ephemeris, dateTime)

C6_NoStaleState ==
    /\ C6_DerivedFrom(defaultPerViewData)
    /\ \A v \in DOMAIN perViewData :
          /\ C6_DerivedFrom(perViewData[v])
          /\ perViewData[v].starsXform.matrix = starsMatrixOf(dateTime)
          /\ perViewData[v].sunXform.matrix =
                sunMatrixAt(ephemeris, dateTime, innerRadius)
          /\ perViewData[v].moonXform.matrix = moonMatrixAt(ephemeris, dateTime)

\* Two registered views after the date has been changed
C6_Witness ==
    /\ DOMAIN perViewData = {1, 2}
    /\ dateTime # InitialDate
    /\ perViewData[1].date = dateTime

\* -------------------------------------------------------------------- C7
\* C7: once a date/time change has run, running onSetDateTime again with the
\* same date and ephemeris leaves the default state and every registered
\* state exactly as the first run left them.
C7_ClockIdempotent ==
    [][ \A dt \in Dates :
          setDateTime(dt) =>
            LET again == onSetDateTime(defaultPerViewData', perViewData', dt,
                                       ephemeris', sunDistance')
            IN  /\ again.def = defaultPerViewData'
                /\ again.pvd = perViewData'
                /\ again.moonPosition = moonPosition'
      ]_vars

\* Two registered views after the date has been changed, nothing overridden
C7_Witness ==
    /\ DOMAIN perViewData = {1, 2}
    /\ dateTime # InitialDate
    /\ dateTime.hh # HalfHours(12)
    /\ perViewData[2].starsXform.matrix = starsMatrixOf(dateTime)
    /\ perViewData[2].lightPos = sunDirectionAt(ephemeris, dateTime)

\* -------------------------------------------------------------------- C8
\* C8: a date/time change leaves the default state and each registered state
\* with the light direction the normalized ephemeris sun vector, the light
\* position that direction with w = 0, the uniform the normalized direction,
\* the sun transform a translation by direction x (inner radius x 12000),
\* the moon transform a translation by the ephemeris moon position, and the
\* star matrix (in a registered state also the star transform) the star
\* rotation matrix.
C8_AppliedTo(data, e, dt, r) ==
    LET dir == Normalize(getSunPositionECEF(e, dt))
    IN  /\ data.lightPos = dir
        /\ data.light.position = <<dir[1], dir[2], dir[3], 0>>
        /\ data.lightPosUniform.value = Normalize(dir)
        /\ data.sunXform.matrix = Translate(Scaled(r * SunDistanceFactor, dir))
        /\ data.moonXform.matrix = Translate(getMoonPositionECEF(e, dt))
        /\ data.starsMatrix = Rotate(0 - rot_z(dt))
        /\ data.starsXform.valid => data.starsXform.matrix = Rotate(0 - rot_z(dt))

C9_Celestial(data) ==
    << data.lightPos, data.light.position, data.sunXform.matrix,
       data.moonXform.matrix, data.starsMatrix,
       IF data.starsXform.valid THEN data.starsXform.matrix ELSE Identity,
       data.date >>

C9_AttachTouchesOnlyItsView ==
    [][ \A view \in Views :
          (\E lightNum \in LightNums : attach(view, lightNum)) =>
            /\ C9_Celestial(defaultPerViewData') = C9_Celestial(defaultPerViewData)
            /\ \A other \in DOMAIN perViewData \ {view} :
                  C9_Celestial(perViewData'[other]) =
                      C9_Celestial(perViewData[other])
      ]_vars

\* ------------------------------------------------------------------- C10
\* C10 (as claimed): at hoursOfDay = 12 the star rotation is a rotation by pi.
C10_NoonAngleIsPi ==
    dateTime.hh = HalfHours(12) =>
        /\ rot_z(dateTime) = Pi
        /\ defaultPerViewData.starsMatrix = Rotate(0 - Pi)

\* C10 (amended): at hoursOfDay = 12 the star rotation angle
\* -pi + 2 pi (hoursOfDay/24) is 0, and the star rotation matrix that
\* onSetDateTime stores in the default state and applies in every registered
\* state is the rotation by 0.
C10_NoonAngleIsZero ==
    dateTime.hh = HalfHours(12) =>
        /\ rot_z(dateTime) = 0
        /\ defaultPerViewData.starsMatrix = Rotate(0)
        /\ \A v \in DOMAIN perViewData :
              /\ perViewData[v].starsMatrix = Rotate(0)
              /\ perViewData[v].starsXform.matrix = Rotate(0)

\* Noon has been set with a view registered
C10_Witness ==
    /\ dateTime.hh = HalfHours(12)
    /\ dateTime # InitialDate
    /\ perViewData # << >>
    /\ defaultPerViewData.date = dateTime

\* C11: with the automatic ambience on, a traversed frame leaves the resolved
\* state's light ambient at (a, a, a, 1) with
\* a = 0.2 + (clamp(eye.sun, -0.2, 0.75) + 0.2) / 0.95 * 0.72; for every
\* eye.sun in [-1, 1], a lies in [0.2, 0.92] and does not decrease as eye.sun
\* grows, and eye.sun = 0.275 gives a = 0.56.
C11_AmbientFollowsEye ==
    /\ (cull.active /\ cull.itr.valid /\ autoAmbience) =>
          LET data == perViewData[cull.itr.key]
              x == eyeDotSunOf(cull.eye, data.lightPos)
              a == 200 + ((clampBetween(x, 0 - 200, 750) + 200) * 720) \div 950
          IN  data.light.ambient = <<a, a, a, 1000>>
    /\ \A x \in (0 - 1000) .. 1000 :
          /\ ambientOf(x) >= 200
          /\ ambientOf(x) <= 920
          /\ x < 1000 => ambientOf(x) <= ambientOf(x + 1)
    /\ ambientOf(275) = 560

\* C11 witness: a frame traversed with the automatic ambience on whose
\* deviation falls strictly between the two clamp limits
C11_Witness ==
    /\ cull.active /\ cull.itr.valid /\ autoAmbience
    /\ perViewData[cull.itr.key].light.ambient[1] > 200
    /\ perViewData[cull.itr.key].light.ambient[1] < 920

\* The record each line of a table decodes to
recordsOf(lines) == [i \in 1 .. Len(lines) |-> StarData(lines[i])]

\* A line that is neither empty nor a '#' line
isRecordLine(line) == line.first # "" /\ line.first # "#"

\* The star field has been built
starsBuilt == work.job = "stars" /\ work.pc = "done"

\* C12: every star kept, from a catalog file or from the built-in table, has
\* magnitude >= the threshold m; with the threshold -1.0 every record decoded
\* from the catalog file is kept, whatever its magnitude.
C12_FilterKeepsAllWhenDisabled ==
    /\ starsBuilt =>
          \A i \in 1 .. Len(work.stars) :
              work.stars[i].magnitude >= work.minStarMagnitude
    /\ ( /\ work.job = "stars" /\ work.result = "true"
         /\ work.pc = "fallback"
         /\ work.minStarMagnitude = 0 - 100 ) =>
          work.stars = work.decoded

\* C15: of a catalog file that opens, empty lines and '#' lines give no
\* record, and every other line, the last one with or without a newline
\* after it, gives exactly one record before the magnitude filter, in file
\* order.
C15_EveryLineDecoded ==
    (work.job = "stars" /\ work.result = "true") =>
        work.decoded = recordsOf(SelectSeq(work.starFile.lines, isRecordLine))

\* C16: when the configured star file cannot be opened, parseStarFile returns
\* false with an empty list and a warning, and the star field is the built-in
\* table filtered by the same threshold.
C16_UnopenableFileFallsBack ==
    (work.job = "stars" /\ work.starFile.isSet /\ ~work.starFile.opens) =>
      /\ work.pc = "fallback" =>
            /\ work.result = "false"
            /\ work.stars = << >>
            /\ work.warnings # << >>
      /\ work.pc = "done" =>
            /\ work.result = "false"
            /\ work.usedDefault
            /\ work.stars =
                  SelectSeq(recordsOf(s_defaultStarData),
                            LAMBDA r : r.magnitude >= work.minStarMagnitude)

\* C16 witness: a star field built after a file that did not open, with a
\* threshold that drops some of the built-in table and keeps the rest
C16_Witness ==
    /\ starsBuilt
    /\ work.starFile.isSet /\ ~work.starFile.opens
    /\ work.stars # << >>
    /\ Len(work.stars) < Len(s_defaultStarData)

\* C13: s_makeEllipsoidGeometry yields (latSegments+1) * lonSegments = 20200
\* vertices and latSegments * lonSegments * 6 = 120000 indices; each quad is
\* two triangles over its own and the next row and column, the last column
\* joined to column 0; the texture-coordinate and normal arrays, when asked
\* for, are as long as the vertex array.
C13_EllipsoidCounts ==
    work.job = "ellipsoid" =>
      /\ work.pc = "done" =>
            /\ work.verts = 20200
            /\ work.verts = (latSegments + 1) * lonSegments
            /\ work.el = 120000
            /\ work.el = latSegments * lonSegments * 6
      /\ work.genTexCoords =>
            work.texCoords = work.verts /\ work.normals = work.verts
      /\ (work.verts > 0 /\ (work.verts - 1) \div lonSegments < latSegments) =>
            LET row == (work.verts - 1) \div lonSegments
                col == (work.verts - 1) % lonSegments
                next == (col + 1) % lonSegments
                a == row * lonSegments + col
                b == (row + 1) * lonSegments + col
                c == row * lonSegments + next
                d == (row + 1) * lonSegments + next
            IN  /\ work.quad = << a, b, c, c, b, d >>
                /\ work.el = 6 * work.verts

\* C13 witness: the finished moon ellipsoid, built with texture coordinates
C13_Witness ==
    work.job = "ellipsoid" /\ work.pc = "done" /\ work.genTexCoords

\* C14: s_makeDiscGeometry yields 1 + 48 vertices and 48 triangles, triangle
\* i being (0, 1 + ((i+1) mod 48), 1 + i): vertex 0 comes first in each and
\* the last triangle comes back to perimeter vertex 1.
C14_DiscFan ==
    (work.job = "disc" /\ work.pc = "done") =>
      /\ work.verts = 1 + 48
      /\ Len(work.el) = 3 * 48
      /\ \A i \in 0 .. 47 :
            << work.el[3 * i + 1], work.el[3 * i + 2], work.el[3 * i + 3] >>
              = << 0, 1 + ((i + 1) % 48), 1 + i >>
      /\ work.el[3 * 47 + 2] = 1

\* C14 witness: the finished disc
C14_Witness == work.job = "disc" /\ work.pc = "done" /\ work.i = segments

\* C17: when the moon texture cannot be loaded, the moon flag is false and
\* the default state's moon transform is masked when initialize() returns,
\* and every view attached afterwards, the moon never being switched on in
\* between, has its moon transform masked; attach otherwise completes: the
\* view's state has its light, its container and its other transforms, and
\* the view is in sky-light mode with that light.
C17_NoMoonTexture ==
    /\ ~moonVisible
    /\ defaultPerViewData.moonXform.mask = "0"
    /\ \A v \in DOMAIN perViewData :
          /\ perViewData[v].moonXform.mask = "0"
          /\ perViewData[v].light.valid
          /\ perViewData[v].cullContainer.valid
          /\ perViewData[v].sunXform.valid
          /\ perViewData[v].starsXform.valid
          /\ perViewData[v].sunXform.mask = Mask(sunVisible)
          /\ viewState[v].lightingMode = "SKY_LIGHT"
          /\ viewState[v].light = perViewData[v].light.id

\* C17 witness: both views attached after the texture failed, one of them
\* twice, the sun and the stars still shown
C17_Witness ==
    /\ ~moonVisible
    /\ defaultPerViewData.moonXform.mask = "0"
    /\ DOMAIN perViewData = Views
    /\ attachCount = 3
    /\ sunVisible /\ starsVisible
    /\ \A v \in Views : perViewData[v].moonXform.mask = "0"

\* C18: the scattering uniforms are written by initialize() with
\* outer radius = 1.025 * inner radius and Scale = 1 / (outer - inner); no
\* operation changes a scattering uniform or either radius afterwards; the
\* uniforms sit on the node and no view's state holds a copy of any of them.
C18_ScatteringWrittenOnce ==
    /\ [] ( /\ RatEq(outerRadius, Rat(1025 * innerRadius, 1000))
            /\ RatEq(RatMul(uniforms.atmos_fScale,
                             RatSub(outerRadius, Rat(innerRadius, 1))),
                      Rat(1, 1))
            /\ RatEq(uniforms.atmos_fInnerRadius, Rat(innerRadius, 1))
            /\ RatEq(uniforms.atmos_fOuterRadius, outerRadius)
            /\ \A v \in DOMAIN perViewData :
                  /\ DOMAIN perViewData[v] \cap DOMAIN uniforms = {}
                  /\ perViewData[v].cullContainer.uniform =
                        perViewData[v].lightPosUniform.id )
    /\ [][ /\ uniforms' = uniforms
           /\ innerRadius' = innerRadius
           /\ outerRadius' = outerRadius ]_vars

\* C18 witness: a frame being traversed for an attached view after the date,
\* the moon position and the sun's visibility have been changed
C18_Witness ==
    /\ cull.active
    /\ 1 \in DOMAIN perViewData
    /\ dateTime # InitialDate
    /\ moonPosition \in MoonInputs
    /\ ~sunVisible
    /\ RatEq(uniforms.atmos_fScale, Rat(1000, 25 * innerRadius))

\* The objects a view's state owns
ownedBy(data) ==
    { x.id : x \in { y \in { data.light, data.lightPosUniform,
                             data.cullContainer, data.sunXform, data.moonXform,
                             data.starsXform } : y.valid } }

\* C19: after any attaches and re-attaches, the light, the light-direction
\* uniform, the container and the sun, moon and stars transforms of two
\* different registered views are different objects, and different from the
\* default state's; the sun, moon, stars and atmosphere geometry below them
\* is the same for every view.
C19_OwnedObjectsDistinct ==
    \A v \in DOMAIN perViewData :
      LET data == perViewData[v]
      IN  /\ Cardinality(ownedBy(data)) = 6
          /\ ownedBy(data) \cap ownedBy(defaultPerViewData) = {}
          /\ \A w \in DOMAIN perViewData \ {v} :
                ownedBy(data) \cap ownedBy(perViewData[w]) = {}
          /\ data.sunXform.child = "_sun"
          /\ data.moonXform.child = "_moon"
          /\ data.starsXform.child = "_stars"
          /\ data.cullContainer.children[4] = "_atmosphere"
          /\ data.cullContainer.children[1] = data.sunXform.id
          /\ data.cullContainer.children[2] = data.moonXform.id
          /\ data.cullContainer.children[3] = data.starsXform.id

\* C19 witness: both views registered, one of them attached twice
C19_Witness ==
    /\ DOMAIN perViewData = Views
    /\ attachCount = 3
    /\ perViewData[1].light.id # perViewData[2].light.id

\* C20: the registered views only grow in number: a view becomes registered
\* only by attach of that view, the registry holds views only (one state
\* each), and no step of any operation drops a view or registers one that
\* was not attached in that step.
C20_RegistryOnlyGrows ==
    [][ /\ DOMAIN perViewData \subseteq DOMAIN perViewData'
        /\ DOMAIN perViewData' \subseteq Views
        /\ \A v \in DOMAIN perViewData' \ DOMAIN perViewData :
              \E lightNum \in LightNums : attach(v, lightNum) ]_vars

\* C20 witness: view 1 registered and view 2 not, after the sun and the moon
\* were positioned and the date changed
C20_Witness ==
    /\ DOMAIN perViewData = {1}
    /\ attachCount = 2
    /\ moonPosition \in MoonInputs
    /\ dateTime # InitialDate

\* C21: for every registered view v, the light installed in v is the light
\* object of v's state and v is in sky-light mode; attach(v, n) leaves that
\* light with number n and with the default light's ambient term, and the
\* number stays until the next attach of v.
C21_LightInstalled ==
    /\ [] ( \A v \in DOMAIN perViewData :
              /\ perViewData[v].light.valid
              /\ viewState[v].light = perViewData[v].light.id
              /\ viewState[v].lightingMode = "SKY_LIGHT" )
    /\ [][ \A v \in Views :
             /\ \A n \in LightChannels :
                   attach(v, n) =>
                     /\ perViewData'[v].light.lightNum = n
                     /\ perViewData'[v].light.ambient =
                           defaultPerViewData.light.ambient
             /\ ( /\ v \in DOMAIN perViewData
                  /\ ~ \E n \in LightChannels : attach(v, n) ) =>
                   perViewData'[v].light.lightNum =
                     perViewData[v].light.lightNum ]_vars

\* C21 witness: both views registered with different light numbers, view 1
\* attached twice and left with the number of its second attach, the date
\* changed since
C21_Witness ==
    /\ DOMAIN perViewData = Views
    /\ attachCount = 3
    /\ perViewData[1].light.id = ObjId(3, "light")
    /\ perViewData[1].light.lightNum = 2
    /\ perViewData[2].light.lightNum = 1
    /\ viewState[1].light = ObjId(3, "light")
    /\ dateTime # InitialDate

\* C22: a cull traversal leaves the set of registered views as it was; with
\* the automatic ambience off it leaves the default state and every view's
\* state as they were; with it on, the one thing it changes is the ambient
\* colour of the resolved state's light, every other view's state and the
\* default state staying as they were.
C22_TraversalFrame ==
    [][ (cull' # cull) =>
          /\ DOMAIN perViewData' = DOMAIN perViewData
          /\ defaultPerViewData' = defaultPerViewData
          /\ ~autoAmbience => perViewData' = perViewData
          /\ autoAmbience =>
                \A v \in DOMAIN perViewData :
                  IF cull'.active /\ cull'.itr.valid /\ v = cull'.itr.key
                  THEN perViewData'[v] =
                         [perViewData[v] EXCEPT !.light.ambient =
                            perViewData'[v].light.ambient]
                  ELSE perViewData'[v] = perViewData[v] ]_vars

\* C22 witness: with the automatic ambience on, a frame traversed for view 1
\* has set its light's ambient colour while view 2's light still has the
\* ambient colour it was attached with
C22_Witness ==
    /\ cull.active /\ autoAmbience
    /\ DOMAIN perViewData = Views
    /\ cull.itr.valid /\ cull.itr.key = 1
    /\ perViewData[1].light.ambient[4] = 1000
    /\ perViewData[2].light.ambient = defaultPerViewData.light.ambient

\* C23: attach with a null view does nothing: the registry, the default
\* state, every registered view's state, the views and the date/time are as
\* before, and no clock propagation has run (a sun or moon position set by
\* hand is still in place).
C23_AttachNullIsNoOp ==
    [][ (\E lightNum \in LightNums : attachNull(lightNum)) =>
          /\ perViewData' = perViewData
          /\ defaultPerViewData' = defaultPerViewData
          /\ dateTime' = dateTime
          /\ moonPosition' = moonPosition
          /\ viewState' = viewState
          /\ attachCount' = attachCount ]_vars

\* C23 witness: a state in which attach may be called with a null view and
\* a clock propagation would show: view 1 is registered and the moon has been
\* positioned by hand in the default state and in view 1's
C23_Witness ==
    /\ ~cull.active
    /\ 1 \in DOMAIN perViewData
    /\ moonPosition \in MoonInputs
    /\ defaultPerViewData.moonMatrix = Translate(moonPosition)
    /\ perViewData[1].moonMatrix = Translate(moonPosition)
    /\ moonPosition # getMoonPositionECEF(ephemeris, dateTime)

\* C24: a cull traversal takes the visitor's clamp callback off while the
\* sky subgraph is traversed and, on return, leaves the visitor with the
\* callback it came with (none stays none); a traversal by any other visitor
\* leaves the callback alone.
C24_ClampCallbackRestored ==
    /\ [] (cull.active => visitor.clampCallback = NoCallback)
    /\ [][ /\ (~cull.active /\ cull'.active) =>
                cull'.cb = visitor.clampCallback
           /\ (cull.active /\ ~cull'.active) =>
                visitor'.clampCallback = cull.cb
           /\ traverseOther => visitor' = visitor ]_vars

\* C24 witness: the sky subgraph of a registered view being traversed by a
\* visitor that came with a clamp callback, the callback taken off
C24_Witness ==
    /\ cull.active /\ cull.itr.valid
    /\ cull.cb = "clamper"
    /\ visitor.clampCallback = NoCallback

\* C25: the built-in table is used only when no catalog file is configured
\* or the configured file cannot be opened; when the configured file opens,
\* the star field is exactly the records of that file that pass the filter,
\* also when none pass.
C25_DefaultOnlyWithoutFile ==
    starsBuilt =>
      /\ work.usedDefault =>
            (~work.starFile.isSet \/ ~work.starFile.opens)
      /\ (work.starFile.isSet /\ work.starFile.opens) =>
            work.stars =
              SelectSeq(work.decoded,
                        LAMBDA r : r.magnitude >= work.minStarMagnitude)

\* C26: in every registered per-view state the stored sun, moon and star
\* matrices equal the matrices set on that state's sun, moon and star
\* transform nodes, after any sequence of attach, date and position operations.
C26_StoredMatricesMatchTransforms ==
    \A v \in DOMAIN perViewData :
        /\ perViewData[v].sunMatrix = perViewData[v].sunXform.matrix
        /\ perViewData[v].moonMatrix = perViewData[v].moonXform.matrix
        /\ perViewData[v].starsMatrix = perViewData[v].starsXform.matrix

\* The int values s_makeEllipsoidGeometry computes for the quad at (y, x),
\* before they are stored as GLushort
quadInts(y, x) ==
    LET x_plus_1 == IF x < lonSegments - 1 THEN x + 1 ELSE 0
        y_plus_1 == y + 1
    IN  << y * lonSegments + x,
           y_plus_1 * lonSegments + x,
           y * lonSegments + x_plus_1,
           y * lonSegments + x_plus_1,
           y_plus_1 * lonSegments + x,
           y_plus_1 * lonSegments + x_plus_1 >>

\* The int values s_makeDiscGeometry computes for segment i
triangleInts(i) ==
    LET i_plus_1 == IF i < segments - 1 THEN i + 1 ELSE 0
    IN  << 0, 1 + i_plus_1, 1 + i >>

\* C27: every index the two builders emit is a vertex index of its own mesh,
\* 0 <= index < vertex count of the finished mesh, and is below 65536, so the
\* 16-bit element stored is the value computed, without wrap-around.
C27_IndicesValid ==
    /\ work.job = "ellipsoid" =>
          /\ work.pc = "done" => work.verts = (latSegments + 1) * lonSegments
          /\ Len(work.quad) = 6 =>
                LET row == (work.verts - 1) \div lonSegments
                    col == (work.verts - 1) % lonSegments
                IN  \A k \in 1 .. 6 :
                        /\ work.quad[k] = quadInts(row, col)[k]
                        /\ 0 <= work.quad[k]
                        /\ work.quad[k] < (latSegments + 1) * lonSegments
                        /\ quadInts(row, col)[k] < 65536
    /\ work.job = "disc" =>
          /\ work.pc = "done" => work.verts = 1 + segments
          /\ Len(work.el) = 3 * work.i
          /\ \A i \in 0 .. work.i - 1 : \A k \in 1 .. 3 :
                /\ work.el[3 * i + k] = triangleInts(i)[k]
                /\ 0 <= work.el[3 * i + k]
                /\ work.el[3 * i + k] < 1 + segments
                /\ triangleInts(i)[k] < 65536

\* C27 witness: the quad that holds the largest index of the ellipsoid, the
\* last vertex of the last row
C27_Witness ==
    /\ work.job = "ellipsoid" /\ Len(work.quad) = 6
    /\ work.quad[6] = (latSegments + 1) * lonSegments - 1
    /\ work.y = latSegments - 1

====
